---- MODULE Spec2Model ----
(***************************************************************************)
(* Model of src/model/app.py: the FastAPI application whose single route   *)
(* POST /generate-video forwards a prompt to a Vertex AI endpoint and      *)
(* relays predictions[0] as {"video_url": ...}.                            *)
(*                                                                         *)
(* The state is the process (its environment, its module globals, whether *)
(* it serves), the event loop that runs the `async def` handler, every     *)
(* HTTP request's position in the handler, the predict calls the remote    *)
(* service has received and what it answered, and the HTTP responses.      *)
(***************************************************************************)
EXTENDS Integers, Sequences, FiniteSets, TLC

\* ------------------------------------------------------------------ bounds

\* Number of HTTP requests the model follows.
MaxRequests == 2

\* Longest predictions list the remote service returns.
MaxPreds == 2

Reqs == 1..MaxRequests

\* Prompts a client may send; the handler does not validate them, so the
\* empty string is among them.
Prompts == {"", "a cat surfing", "a dog"}

\* Prediction values the remote service may return.
Urls == {"https://example.com/v1.mp4", "https://example.com/v2.mp4"}

\* Every predictions list of length 0..MaxPreds.
PredLists == UNION {[1..n -> Urls] : n \in 0..MaxPreds}

\* --------------------------------------------------------- python values

\* os.getenv returns None for an unset variable, else the string.  An
\* optional string is <<>> (None) or <<s>>.
None == <<>>

Some(s) == <<s>>

\* str.format's rendering of an argument: None is rendered "None".
Str(v) == IF v = None THEN "None" ELSE v[1]

\* Values the two environment variables may hold when the process starts.
ProjectValues == {None, Some("proj-a")}

RegionValues == {None, Some("us-central1")}

VARIABLES
    environ,      \* the process environment: variable name -> optional string
    proc,         \* "serving" | "failed" (module import raised) | "crashed"
    PROJECT_ID,   \* module global, line 6
    REGION,       \* module global, line 7
    running,      \* the request whose coroutine holds the event loop, or 0
    pc,           \* per request: "idle" | "pending" | "waiting" | "done"
    prompt,       \* per request: the prompt parameter
    calls,        \* predict calls received by the remote service, in order
    reply,        \* per request: the remote service's answer to its call
    exc,          \* per request: the exception that left the handler, or ""
    resp          \* per request: the HTTP response sent to the caller

vars == <<environ, proc, PROJECT_ID, REGION, running, pc, prompt, calls,
          reply, exc, resp>>

\* ------------------------------------------------------------- responses

NoResp == [status |-> 0, body |-> [none |-> TRUE]]

\* line 19: the dict the handler returns, sent by FastAPI as 200 JSON.
OK200(u) == [status |-> 200, body |-> [video_url |-> u]]

\* An exception that leaves the handler is answered by the application
\* with 500 Internal Server Error.
Err500 == [status |-> 500, body |-> [text |-> "Internal Server Error"]]

NoReply == [kind |-> "none", predictions |-> <<>>]

Raised == [kind |-> "raise", predictions |-> <<>>]

Returned(preds) == [kind |-> "ok", predictions |-> preds]

\* --------------------------------------------------------------- helpers

\* line 6-7: os.getenv(name)
getenv(name) == environ[name]

\* Variant: project and region in each other's place.
EndpointNameSwapped(project, region) ==
    "projects/" \o Str(region) \o "/locations/" \o Str(project)
        \o "/endpoints/" \o "your-endpoint-id"

\* lines 14-16: "projects/{}/locations/{}/endpoints/{}".format(...)
EndpointName(project, region) ==
    "projects/" \o Str(project) \o "/locations/" \o Str(region)
        \o "/endpoints/" \o "your-endpoint-id"

\* Variant: the instance is sent twice.
InstancesTwice(p) == <<[prompt |-> p], [prompt |-> p]>>

\* line 18: instances=[{"prompt": prompt}]
Instances(p) == <<[prompt |-> p]>>

\* Variant: a prompt kept from another request is sent.
PromptOfFirst(i) == prompt[1]

\* line 12: the handler's own parameter.
PromptOf(i) == prompt[i]

\* Variant: the last prediction is relayed instead of the first.
ResultLast(preds) ==
    IF preds = <<>> THEN [exc |-> "IndexError", resp |-> Err500]
    ELSE [exc |-> "", resp |-> OK200(preds[Len(preds)])]

\* Variant: an empty predictions list is answered with a success.
ResultEmptyOk(preds) ==
    IF preds = <<>> THEN [exc |-> "", resp |-> OK200("")]
    ELSE [exc |-> "", resp |-> OK200(preds[1])]

\* line 19: return {"video_url": response.predictions[0]}; indexing an
\* empty list raises IndexError, which leaves the handler.
Result(preds) ==
    IF preds = <<>> THEN [exc |-> "IndexError", resp |-> Err500]
    ELSE [exc |-> "", resp |-> OK200(preds[1])]

\* The predict calls the remote service received from request i.
CallsOf(i) == {k \in 1..Len(calls) : calls[k].req = i}

\* ------------------------------------------------------------------ init

\* Lines 5-9 have run: the globals hold what os.getenv returned, and
\* aiplatform.init either returned (the app serves) or raised (the import
\* failed and nothing is served).
Init ==
    /\ environ \in {[GCP_PROJECT_ID |-> p, GCP_REGION |-> r] :
                        p \in ProjectValues, r \in RegionValues}
    /\ PROJECT_ID = getenv("GCP_PROJECT_ID")
    /\ REGION = getenv("GCP_REGION")
    /\ proc \in {"serving", "failed"}
    /\ running = 0
    /\ pc = [i \in Reqs |-> "idle"]
    /\ prompt = [i \in Reqs |-> ""]
    /\ calls = <<>>
    /\ reply = [i \in Reqs |-> NoReply]
    /\ exc = [i \in Reqs |-> ""]
    /\ resp = [i \in Reqs |-> NoResp]

\* --------------------------------------------------------------- actions

\* line 11: a POST /generate-video request with prompt p reaches the app.
Arrive(i) ==
    /\ proc = "serving"
    /\ pc[i] = "idle"
    /\ \E p \in Prompts : prompt' = [prompt EXCEPT ![i] = p]
    /\ pc' = [pc EXCEPT ![i] = "pending"]
    /\ UNCHANGED <<environ, proc, PROJECT_ID, REGION, running, calls, reply,
                   exc, resp>>

\* lines 12-18: the event loop starts the coroutine of a pending request.
\* `async def` handlers run on the event loop itself, and the body holds
\* no await, so the coroutine keeps the loop until it returns or raises.
\* It constructs the Endpoint (which may raise) and issues the predict
\* call, a synchronous call that blocks the loop while it is in flight.
Begin(i) ==
    /\ proc = "serving"
    /\ pc[i] = "pending"
    /\ running = 0
    /\ \E ctorRaises \in BOOLEAN :
        IF ctorRaises
        THEN /\ exc' = [exc EXCEPT ![i] = "EndpointError"]
             /\ resp' = [resp EXCEPT ![i] = Err500]
             /\ pc' = [pc EXCEPT ![i] = "done"]
             /\ UNCHANGED <<running, calls>>
        ELSE /\ calls' = Append(calls,
                    [req |-> i,
                     endpoint |-> EndpointName(PROJECT_ID, REGION),
                     instances |-> Instances(PromptOf(i))])
             /\ pc' = [pc EXCEPT ![i] = "waiting"]
             /\ running' = i
             /\ UNCHANGED <<exc, resp>>
    /\ UNCHANGED <<environ, proc, PROJECT_ID, REGION, prompt, reply>>

\* lines 18-19: predict returns its predictions; the handler returns
\* {"video_url": predictions[0]} or raises IndexError on an empty list.
PredictReturn(i) ==
    /\ pc[i] = "waiting"
    /\ running = i
    /\ \E preds \in PredLists :
        /\ reply' = [reply EXCEPT ![i] = Returned(preds)]
        /\ exc' = [exc EXCEPT ![i] = Result(preds).exc]
        /\ resp' = [resp EXCEPT ![i] = Result(preds).resp]
    /\ pc' = [pc EXCEPT ![i] = "done"]
    /\ running' = 0
    /\ UNCHANGED <<environ, proc, PROJECT_ID, REGION, prompt, calls>>

\* Variant: the handler catches the failure and answers a success.
PredictRaiseSwallowed(i) ==
    /\ pc[i] = "waiting"
    /\ running = i
    /\ reply' = [reply EXCEPT ![i] = Raised]
    /\ exc' = [exc EXCEPT ![i] = "PredictError"]
    /\ resp' = [resp EXCEPT ![i] = OK200("")]
    /\ pc' = [pc EXCEPT ![i] = "done"]
    /\ running' = 0
    /\ UNCHANGED <<environ, proc, PROJECT_ID, REGION, prompt, calls>>

\* Variant: the failure takes the process down.
PredictRaiseCrash(i) ==
    /\ pc[i] = "waiting"
    /\ running = i
    /\ reply' = [reply EXCEPT ![i] = Raised]
    /\ exc' = [exc EXCEPT ![i] = "PredictError"]
    /\ resp' = [resp EXCEPT ![i] = Err500]
    /\ pc' = [pc EXCEPT ![i] = "done"]
    /\ running' = 0
    /\ proc' = "crashed"
    /\ UNCHANGED <<environ, PROJECT_ID, REGION, prompt, calls>>

\* Variant: the handler retries a failed predict call.
PredictRaiseRetry(i) ==
    /\ pc[i] = "waiting"
    /\ running = i
    /\ reply' = [reply EXCEPT ![i] = Raised]
    /\ calls' = Append(calls, calls[CHOOSE k \in CallsOf(i) : TRUE])
    /\ UNCHANGED <<environ, proc, PROJECT_ID, REGION, running, pc, prompt,
                   exc, resp>>

\* line 18: predict raises (authentication, network, quota, missing
\* endpoint, ...).  The handler has no try/except: the exception leaves it
\* and the application answers 500; the process keeps serving.
PredictRaise(i) ==
    /\ pc[i] = "waiting"
    /\ running = i
    /\ reply' = [reply EXCEPT ![i] = Raised]
    /\ exc' = [exc EXCEPT ![i] = "PredictError"]
    /\ resp' = [resp EXCEPT ![i] = Err500]
    /\ pc' = [pc EXCEPT ![i] = "done"]
    /\ running' = 0
    /\ UNCHANGED <<environ, proc, PROJECT_ID, REGION, prompt, calls>>

Next ==
    \/ \E i \in Reqs : Arrive(i)
    \/ \E i \in Reqs : Begin(i)
    \/ \E i \in Reqs : PredictReturn(i)
    \/ \E i \in Reqs : PredictRaise(i)

Spec == Init /\ [][Next]_vars

\* ---------------------------------------------------------------- claims

IsError(r) == r.status >= 400

\* C1: for a non-empty prompt and a non-empty predictions list returned to
\* the handler's predict call, the response is 200 with body exactly
\* {"video_url": U}, U the first prediction; later elements are not used.
C1_FirstPrediction ==
    \A i \in Reqs :
        (prompt[i] # "" /\ reply[i].kind = "ok" /\ reply[i].predictions # <<>>)
            => resp[i] = OK200(reply[i].predictions[1])

C1_Witness ==
    \E i \in Reqs :
        /\ prompt[i] = "a cat surfing"
        /\ reply[i].kind = "ok"
        /\ Len(reply[i].predictions) = 2
        /\ reply[i].predictions[1] = "https://example.com/v1.mp4"
        /\ reply[i].predictions[2] = "https://example.com/v2.mp4"
        /\ resp[i].status = 200
        /\ resp[i].body = [video_url |-> "https://example.com/v1.mp4"]

\* C2: for any prompt P, the empty string included, the payload of the
\* predict call is a list of exactly one instance, {"prompt": P}.
C2_OneInstancePayload ==
    \A k \in 1..Len(calls) :
        /\ Len(calls[k].instances) = 1
        /\ calls[k].instances[1] = [prompt |-> prompt[calls[k].req]]

C2_Witness ==
    \E k \in 1..Len(calls), l \in 1..Len(calls) :
        /\ prompt[calls[k].req] = ""
        /\ calls[k].instances = <<[prompt |-> ""]>>
        /\ prompt[calls[l].req] = "a dog"
        /\ calls[l].instances = <<[prompt |-> "a dog"]>>

\* C3: when predict returns an empty predictions list the request ends
\* with an error response, never a success carrying a video_url, and the
\* process keeps serving.
C3_EmptyPredictionsIsError ==
    \A i \in Reqs :
        reply[i] = Returned(<<>>)
            => /\ IsError(resp[i])
               /\ resp[i].status # 200
               /\ proc = "serving"

C3_Witness ==
    \E i \in Reqs :
        /\ reply[i] = Returned(<<>>)
        /\ exc[i] = "IndexError"
        /\ resp[i] = Err500

\* C4: when the Endpoint construction or the predict call raises, the
\* caller gets an HTTP error response, never a success.
C4_CollaboratorFailureSurfaced ==
    \A i \in Reqs :
        /\ reply[i].kind = "raise" => IsError(resp[i])
        /\ (pc[i] = "done" /\ CallsOf(i) = {}) => IsError(resp[i])
        /\ exc[i] # "" => IsError(resp[i])

C4_Witness ==
    \E i \in Reqs, j \in Reqs :
        /\ exc[i] = "EndpointError" /\ CallsOf(i) = {} /\ resp[i] = Err500
        /\ exc[j] = "PredictError" /\ reply[j].kind = "raise" /\ resp[j] = Err500

\* C5: invocations are isolated.  Every outbound payload carries only the
\* prompt of the invocation that sent it, every success response carries
\* the first prediction returned to that invocation's own call, and a step
\* of one invocation changes nothing that belongs to another.
C5_OwnPayloadAndResult ==
    /\ \A k \in 1..Len(calls) :
        \A n \in 1..Len(calls[k].instances) :
            calls[k].instances[n].prompt = prompt[calls[k].req]
    /\ \A i \in Reqs :
        resp[i].status = 200
            => /\ reply[i].kind = "ok"
               /\ reply[i].predictions # <<>>
               /\ resp[i].body.video_url = reply[i].predictions[1]

C5_StepTouchesOne ==
    \E i \in Reqs :
        \A j \in Reqs \ {i} :
            /\ pc'[j] = pc[j]
            /\ prompt'[j] = prompt[j]
            /\ reply'[j] = reply[j]
            /\ exc'[j] = exc[j]
            /\ resp'[j] = resp[j]

C5_Isolation == [](C5_OwnPayloadAndResult) /\ [][C5_StepTouchesOne]_vars

C5_Witness ==
    \E k \in 1..Len(calls), l \in 1..Len(calls) :
        LET i == calls[k].req
            j == calls[l].req
        IN  /\ k < l
            /\ prompt[i] = "a cat surfing" /\ prompt[j] = "a dog"
            /\ calls[k].instances = <<[prompt |-> "a cat surfing"]>>
            /\ calls[l].instances = <<[prompt |-> "a dog"]>>
            /\ resp[i] = OK200("https://example.com/v1.mp4")
            /\ resp[j] = OK200("https://example.com/v2.mp4")

\* C6: the predict call of one invocation does not block other requests:
\* while one invocation waits on endpoint.predict, another pending one can
\* start.
C6_PredictDoesNotBlock ==
    \A i \in Reqs, j \in Reqs :
        (i # j /\ pc[i] = "waiting" /\ pc[j] = "pending") => ENABLED Begin(j)

\* C7 as stated: every invocation that has answered made exactly one
\* predict call, and none ever makes more than one.
C7_ExactlyOneCall ==
    \A i \in Reqs :
        /\ Cardinality(CallsOf(i)) <= 1
        /\ pc[i] = "done" => Cardinality(CallsOf(i)) = 1

\* C7 amended: an invocation makes at most one predict call, never a
\* second one and never a retry; it has made exactly one while the call is
\* in flight and when it answers, except when constructing the Endpoint
\* raised, and then it answers having made none.
C7_OneCallUnlessConstructionRaised ==
    \A i \in Reqs :
        /\ Cardinality(CallsOf(i)) <= 1
        /\ pc[i] = "waiting" => Cardinality(CallsOf(i)) = 1
        /\ pc[i] = "done" =>
            IF exc[i] = "EndpointError"
            THEN Cardinality(CallsOf(i)) = 0
            ELSE Cardinality(CallsOf(i)) = 1
        /\ pc[i] \in {"idle", "pending"} => CallsOf(i) = {}

C7_Witness ==
    \E i \in Reqs, j \in Reqs :
        /\ pc[i] = "done" /\ exc[i] = "PredictError"
        /\ Cardinality(CallsOf(i)) = 1
        /\ pc[j] = "done" /\ exc[j] = "EndpointError"
        /\ Cardinality(CallsOf(j)) = 0

\* C8: errors are request-scoped.  Once an invocation has ended in an
\* error the process still serves, a pending request can still be started
\* when the loop is free, and an invocation whose collaborator answers with
\* predictions gets its normal success response.
C8_ErrorsRequestScoped ==
    \A i \in Reqs :
        IsError(resp[i]) =>
            /\ proc = "serving"
            /\ \A j \in Reqs \ {i} :
                /\ (pc[j] = "pending" /\ running = 0) => ENABLED Begin(j)
                /\ (reply[j].kind = "ok" /\ reply[j].predictions # <<>>)
                    => resp[j] = OK200(reply[j].predictions[1])

C8_Witness ==
    \E k \in 1..Len(calls), l \in 1..Len(calls) :
        /\ k < l
        /\ exc[calls[k].req] \in {"PredictError", "IndexError"}
        /\ resp[calls[k].req] = Err500
        /\ reply[calls[l].req].kind = "ok"
        /\ resp[calls[l].req].status = 200

\* C9: every predict call targets projects/{project}/locations/{region}/
\* endpoints/{endpoint_id} built from the values read from the environment
\* at process start and the fixed literal; the globals are never modified,
\* so all calls of the process target the same reference.
C9_EndpointReference ==
    /\ PROJECT_ID = environ["GCP_PROJECT_ID"]
    /\ REGION = environ["GCP_REGION"]
    /\ \A k \in 1..Len(calls) :
        /\ calls[k].endpoint =
              "projects/" \o Str(environ["GCP_PROJECT_ID"])
                  \o "/locations/" \o Str(environ["GCP_REGION"])
                  \o "/endpoints/your-endpoint-id"
        /\ calls[k].endpoint = calls[1].endpoint

C9_Witness ==
    /\ Len(calls) = 2
    /\ prompt[calls[1].req] # prompt[calls[2].req]
    /\ environ["GCP_PROJECT_ID"] = Some("proj-a")
    /\ environ["GCP_REGION"] = Some("us-central1")
    /\ calls[1].endpoint =
          "projects/proj-a/locations/us-central1/endpoints/your-endpoint-id"
    /\ calls[2].endpoint =
          "projects/proj-a/locations/us-central1/endpoints/your-endpoint-id"

\* C10: with the project or the region unresolved at startup the service
\* accepts no traffic: no request reaches the handler and no predict call
\* is issued.
C10_UnresolvedConfigIsFatal ==
    (environ["GCP_PROJECT_ID"] = None \/ environ["GCP_REGION"] = None)
        => /\ \A i \in Reqs : pc[i] = "idle"
           /\ calls = <<>>

====
